---------------------------- MODULE Spec2Model ----------------------------
(***************************************************************************)
(* A model of the soql-generator compiler pipeline:                        *)
(*   tokenize (engine/lexer.rs) -> Parser::parse (engine/parse.rs)         *)
(*   -> Query::evaluate / Query::generate (engine/querygen.rs),            *)
(* driven by build_query (engine.rs) from the interactive loop (main.rs).  *)
(*                                                                         *)
(* Text is modelled as TLA+ strings; Chars(s) is Rust's s.chars().         *)
(* A Rust panic (unwrap on None / Err) and std::process::exit are          *)
(* modelled as outcomes of their own, next to Ok and Err.                  *)
(***************************************************************************)
EXTENDS Integers, Sequences, FiniteSets, TLC

(***************************************************************************)
(* Text helpers                                                            *)
(***************************************************************************)
Chars(s) == [i \in 1..Len(s) |-> SubSeq(s, i, i)]

RECURSIVE Join(_, _)
Join(strs, sep) ==
    IF Len(strs) = 0 THEN ""
    ELSE IF Len(strs) = 1 THEN strs[1]
    ELSE strs[1] \o sep \o Join(Tail(strs), sep)

AsciiDigits == {"0", "1", "2", "3", "4", "5", "6", "7", "8", "9"}

LowerLetters == {Chars("abcdefghijklmnopqrstuvwxyz")[i] : i \in 1..26}

UpperLetters == {Chars("ABCDEFGHIJKLMNOPQRSTUVWXYZ")[i] : i \in 1..26}

is_whitespace(c) == c \in {" "}

is_ascii_digit(c) == c \in AsciiDigits

is_alphabetic(c) == c \in LowerLetters \cup UpperLetters

(***************************************************************************)
(* Option / Result values                                                  *)
(***************************************************************************)
None == [some |-> FALSE]

Some(v) == [some |-> TRUE, v |-> v]

Ok(p, v) == [tag |-> "Ok", p |-> p, v |-> v]

Err(e) == [tag |-> "Err", e |-> e]

Panic == [tag |-> "Panic"]

\* F applied to the value of e, with e evaluated once
Bind(e, F(_)) == CHOOSE y \in {F(x) : x \in {e}} : TRUE

\* The `?` operator: r? followed by F on the Ok result; an Err or a Panic
\* is passed on
Try(r, F(_)) == CHOOSE y \in {IF x.tag = "Ok" THEN F(x) ELSE x : x \in {r}} : TRUE

(***************************************************************************)
(* engine/token.rs                                                         *)
(***************************************************************************)
\* enum TokenKind, with the Null that search_keywords names
TokenKinds ==
    {"Eof", "Illegal", "Comma", "Dot", "Lparen", "Rparen", "Integer",
     "Identifire", "StringObject", "Plus", "Minus",
     "Select", "Where", "Orderby", "Groupby", "Limit", "Open",
     "And", "Or", "Like", "Eq", "NotEq", "Greater", "GreaterEq", "Less",
     "LessEq", "True", "False", "Null", "Asc", "Desc"}

Token(kind, literal) == [kind |-> kind, literal |-> literal]

is_query_method(token) ==
    token.kind \in {"Select", "Where", "Orderby", "Groupby", "Limit", "Open"}

is_operator(token) ==
    token.kind \in {"Or", "And", "Eq", "NotEq", "Greater", "GreaterEq",
                    "Less", "LessEq", "Like"}

is_dot(token) == token.kind = "Dot"

\* impl Display for TokenKind
TokenKind_to_string(kind) ==
    CASE kind = "Eof" -> "EOF"
      [] kind = "Illegal" -> "ILLEGAL"
      [] kind = "Comma" -> ","
      [] kind = "Dot" -> "."
      [] kind = "Lparen" -> "("
      [] kind = "Rparen" -> ")"
      [] kind = "Integer" -> "INTEGER"
      [] kind = "Identifire" -> "IDENTIFIRE"
      [] kind = "StringObject" -> "STRING"
      [] OTHER -> kind

(***************************************************************************)
(* engine/lexer.rs                                                         *)
(***************************************************************************)
is_literal(c) == is_alphabetic(c) \/ c = "_"

search_keywords(literal) ==
    CASE literal = "select" -> Token("Select", literal)
      [] literal = "where" -> Token("Where", literal)
      [] literal = "orderby" -> Token("Orderby", literal)
      [] literal = "groupby" -> Token("Groupby", literal)
      [] literal = "limit" -> Token("Limit", literal)
      [] literal = "open" -> Token("Open", literal)
      [] literal \in {"and", "AND"} -> Token("And", literal)
      [] literal \in {"or", "OR"} -> Token("Or", literal)
      [] literal \in {"like", "LIKE"} -> Token("Like", literal)
      [] literal \in {"asc", "ASC"} -> Token("Asc", literal)
      [] literal \in {"desc", "DESC"} -> Token("Desc", literal)
      [] literal \in {"true", "TRUE"} -> Token("True", literal)
      [] literal \in {"false", "FALSE"} -> Token("False", literal)
      [] literal \in {"null", "NULL"} -> Token("Null", literal)
      [] OTHER -> Token("Identifire", literal)

\* The consume_* helpers return the consumed text and the index of the
\* first character left in the input (cs is the input, i the next index).
RECURSIVE consume_integer(_, _, _)
consume_integer(cs, i, num) ==
    IF i <= Len(cs) /\ is_ascii_digit(cs[i])
    THEN consume_integer(cs, i + 1, num \o cs[i])
    ELSE [s |-> num, i |-> i]

RECURSIVE consume_literal(_, _, _)
consume_literal(cs, i, literal) ==
    IF i <= Len(cs) /\ (is_literal(cs[i]) \/ is_ascii_digit(cs[i]))
    THEN consume_literal(cs, i + 1, literal \o cs[i])
    ELSE [s |-> literal, i |-> i]

RECURSIVE consume_string_object(_, _, _)
consume_string_object(cs, i, string_obj) ==
    IF i > Len(cs) THEN [s |-> string_obj, i |-> i]
    ELSE IF cs[i] = "'" THEN [s |-> string_obj, i |-> i + 1]
    ELSE consume_string_object(cs, i + 1, string_obj \o cs[i])

\* One-character lookahead for ">=", "<=", "!=".
two_char(cs, i, kind2, lit2, kind1, lit1) ==
    IF i + 1 <= Len(cs) /\ cs[i + 1] = "="
    THEN [tok |-> Token(kind2, lit2), i |-> i + 2]
    ELSE [tok |-> Token(kind1, lit1), i |-> i + 1]

\* the check of the popped token without the test that it is a dot
method_after_any_token(tokens) == Len(tokens) > 0

\* The check made when a method keyword is produced: the token before it
\* is popped and must be a dot, otherwise std::process::exit(1).
\* TRUE when the tokenizer goes on.
method_after_dot(tokens) ==
    Len(tokens) > 0 /\ is_dot(tokens[Len(tokens)])

\* One turn of `while let Some(c) = input.next()`, for the character at
\* index i: [tag |-> "Ok", i |-> next index, tokens |-> ...], or
\* [tag |-> "Exit"] when the process is gone.
tokenize_step(cs, i, tokens) ==
    LET c == cs[i]
        push(tok, j) == [tag |-> "Ok", i |-> j, tokens |-> Append(tokens, tok)]
    IN
    IF is_whitespace(c) THEN [tag |-> "Ok", i |-> i + 1, tokens |-> tokens]
    ELSE CASE c = "=" -> push(Token("Eq", "="), i + 1)
      [] c = "+" -> push(Token("Plus", "+"), i + 1)
      [] c = "-" -> push(Token("Minus", "-"), i + 1)
      [] c = ">" -> Bind(two_char(cs, i, "GreaterEq", ">=", "Greater", ">"),
                         LAMBDA r : push(r.tok, r.i))
      [] c = "<" -> Bind(two_char(cs, i, "LessEq", "<=", "Less", "<"),
                         LAMBDA r : push(r.tok, r.i))
      [] c = "," -> push(Token("Comma", ","), i + 1)
      [] c = "." -> push(Token("Dot", "."), i + 1)
      [] c = "(" -> push(Token("Lparen", "("), i + 1)
      [] c = ")" -> push(Token("Rparen", ")"), i + 1)
      [] c = "!" -> Bind(two_char(cs, i, "NotEq", "!=", "Illegal", "!"),
                         LAMBDA r : push(r.tok, r.i))
      [] c = "'" -> Bind(consume_string_object(cs, i + 1, ""),
                         LAMBDA r : push(Token("StringObject", r.s), r.i))
      [] OTHER ->
           IF is_ascii_digit(c)
           THEN Bind(consume_integer(cs, i + 1, c),
                     LAMBDA r : push(Token("Integer", r.s), r.i))
           ELSE IF is_literal(c)
           THEN Bind(consume_literal(cs, i + 1, c), LAMBDA r :
                Bind(search_keywords(r.s), LAMBDA token :
                   IF is_query_method(token)
                   THEN IF method_after_dot(tokens)
                        THEN [tag |-> "Ok", i |-> r.i,
                              tokens |-> Append(SubSeq(tokens, 1, Len(tokens) - 1), token)]
                        ELSE [tag |-> "Exit"]
                   ELSE push(token, r.i)))
           ELSE push(Token("Illegal", c), i + 1)

\* One turn of the loop from the state st = [tag, i, tokens]; nothing
\* happens once the input is consumed or the process is gone.
tokenize_turn(cs, st) ==
    IF st.tag = "Exit" \/ st.i > Len(cs) THEN st
    ELSE tokenize_step(cs, st.i, st.tokens)

\* n turns of the loop, as the first half of them followed by the rest
RECURSIVE tokenize_turns(_, _, _)
tokenize_turns(cs, st, n) ==
    IF n <= 1 THEN tokenize_turn(cs, st)
    ELSE Bind(tokenize_turns(cs, st, n \div 2), LAMBDA mid :
              tokenize_turns(cs, mid, n - (n \div 2)))

\* The whole loop (it ends within Len(cs) turns), then the push of Eof:
\* [tag |-> "Ok", tokens |-> ...] or [tag |-> "Exit"]
tokenize_loop(cs, i, tokens) ==
    Bind(tokenize_turns(cs, [tag |-> "Ok", i |-> i, tokens |-> tokens], Len(cs)),
         LAMBDA st :
             IF st.tag = "Exit" THEN st
             ELSE [tag |-> "Ok", tokens |-> Append(st.tokens, Token("Eof", ""))])

tokenize(input) == Bind(Chars(input), LAMBDA cs : tokenize_loop(cs, 1, <<>>))

(***************************************************************************)
(* i64 values.  TLC's integers are 32 bits wide, so an i64 is kept as a    *)
(* sign and the decimal digits of its magnitude without leading zeros;     *)
(* str::parse::<i64> and i64::to_string are computed on that form, with    *)
(* the range check against i64::MIN / i64::MAX made on the digits.         *)
(***************************************************************************)
I64MaxDigits == "9223372036854775807"

I64MinDigits == "9223372036854775808"

DigitVal(c) == CHOOSE d \in 0..9 : Chars("0123456789")[d + 1] = c

RECURSIVE strip_zeros(_)
strip_zeros(cs) ==
    IF Len(cs) > 1 /\ cs[1] = "0" THEN strip_zeros(Tail(cs)) ELSE cs

\* a <= b for two digit strings of the same length
RECURSIVE digits_le(_, _)
digits_le(a, b) ==
    IF Len(a) = 0 THEN TRUE
    ELSE IF DigitVal(a[1]) < DigitVal(b[1]) THEN TRUE
    ELSE IF DigitVal(a[1]) > DigitVal(b[1]) THEN FALSE
    ELSE digits_le(Tail(a), Tail(b))

magnitude_fits(mag, limit) ==
    \/ Len(mag) < Len(limit)
    \/ Len(mag) = Len(limit) /\ digits_le(mag, Chars(limit))

\* literal.parse::<i64>(): [ok |-> TRUE, neg, mag] or [ok |-> FALSE]
parse_i64(literal) ==
    LET cs == Chars(literal)
        signed == Len(cs) > 0 /\ cs[1] \in {"+", "-"}
        neg == Len(cs) > 0 /\ cs[1] = "-"
        ds == IF signed THEN Tail(cs) ELSE cs
    IN IF Len(ds) = 0 \/ \E i \in 1..Len(ds) : ~is_ascii_digit(ds[i])
       THEN [ok |-> FALSE]
       ELSE LET mag == strip_zeros(ds)
            IN IF magnitude_fits(mag, IF neg THEN I64MinDigits ELSE I64MaxDigits)
               THEN [ok |-> TRUE, neg |-> neg /\ mag # <<"0">>, mag |-> Join(mag, "")]
               ELSE [ok |-> FALSE]

i64_to_string(value) == IF value.neg THEN "-" \o value.mag ELSE value.mag

(***************************************************************************)
(* engine/ast.rs: the nodes are records tagged by their NodeType in        *)
(* `node`; X_string is `impl Node for X { fn string }`.                    *)
(***************************************************************************)
node_type(node) == node.node

token_literal(node) == node.token.literal

FieldLiteral_string(f) == f.name

OrderByOptionLiteral_string(o) == o.name

OperatorLiteral_string(o) == o.value

IntegerLiteral_string(n) == i64_to_string(n.value)

\* Value::string without the quoting arm
Value_string_always_bare(v) == v.value

Value_string(v) ==
    IF v.token.kind \in {"Identifire", "StringObject"}
    THEN "'" \o v.value \o "'"
    ELSE v.value

RECURSIVE Expression_string(_)

PrefixExpression_string(e) ==
    "(" \o e.operator \o Expression_string(e.right) \o ")"

InfixExpression_string(e) ==
    "(" \o Expression_string(e.left) \o " " \o e.operator \o " "
        \o Expression_string(e.right) \o ")"

Condition_string(c) ==
    FieldLiteral_string(c.field) \o " " \o OperatorLiteral_string(c.operator)
        \o " " \o Expression_string(c.value)

\* dynamic dispatch of Expression::string
Expression_string(e) ==
    CASE node_type(e) = "Value" -> Value_string(e)
      [] node_type(e) = "PrefixExpression" -> PrefixExpression_string(e)
      [] node_type(e) = "InfixExpression" -> InfixExpression_string(e)
      [] node_type(e) = "Condition" -> Condition_string(e)

Table_string(t) == t.table_name

\* SelectStatement::string keeping the keyword and parentheses
SelectStatement_string_with_keyword(s) ==
    token_literal(s) \o "("
        \o Join([i \in 1..Len(s.fields) |-> FieldLiteral_string(s.fields[i])], ", ")
        \o ")"

SelectStatement_string(s) ==
    Join([i \in 1..Len(s.fields) |-> FieldLiteral_string(s.fields[i])], ", ")

WhereStatement_string(s) ==
    token_literal(s) \o "(" \o Expression_string(s.expression) \o ")"

GroupByStatement_string(s) ==
    token_literal(s) \o "("
        \o Join([i \in 1..Len(s.fields) |-> FieldLiteral_string(s.fields[i])], ", ")
        \o ")"

OrderByStatement_string(s) ==
    Join([i \in 1..Len(s.options) |-> OrderByOptionLiteral_string(s.options[i])], ", ")

LimitStatement_string(s) == IntegerLiteral_string(s.limit)

OpenStatement_string(s) == token_literal(s)

\* dynamic dispatch of Statement::string
Statement_string(s) ==
    CASE node_type(s) = "Table" -> Table_string(s)
      [] node_type(s) = "SelectStatement" -> SelectStatement_string(s)
      [] node_type(s) = "WhereStatement" -> WhereStatement_string(s)
      [] node_type(s) = "GroupByStatement" -> GroupByStatement_string(s)
      [] node_type(s) = "OrderByStatement" -> OrderByStatement_string(s)
      [] node_type(s) = "LimitStatement" -> LimitStatement_string(s)
      [] node_type(s) = "OpenStatement" -> OpenStatement_string(s)

(***************************************************************************)
(* engine/parse.rs.  The parser state p is                                 *)
(*   [toks : the token vector, pos : index of the token the Peekable       *)
(*    iterator yields next, cur : current_token].                          *)
(* Every parse_* operator returns Ok(p', value), Err(ParseError) or Panic. *)
(***************************************************************************)
UnexpectedToken(message, token_lit) ==
    [type |-> "UnexpectedToken", message |-> message, literal |-> token_lit]

InvalidMethod(method) == [type |-> "InvalidMethod", method |-> method]

\* ParseError::Eof
ParseError_Eof == [type |-> "Eof"]

Parser_new(tokens) ==
    [toks |-> tokens, pos |-> 1, cur |-> Token("Illegal", "")]

\* peek_token() is Some
has_peek(p) == p.pos <= Len(p.toks)

\* peek_token().unwrap(), used where has_peek(p)
peek_token(p) == p.toks[p.pos]

\* next_token(): at the end of the vector it returns None and leaves
\* current_token alone
next_token(p) ==
    IF has_peek(p)
    THEN [p EXCEPT !.cur = p.toks[p.pos], !.pos = p.pos + 1]
    ELSE p

current_token_is(p, kind) == p.cur.kind = kind

peek_token_is(p, kind) == has_peek(p) /\ peek_token(p).kind = kind

peek_token_is_query(p) == has_peek(p) /\ is_query_method(peek_token(p))

expect_peek(p, kind) ==
    IF peek_token_is(p, kind) THEN Ok(next_token(p), kind)
    ELSE IF has_peek(p)
    THEN Err(UnexpectedToken(TokenKind_to_string(kind), peek_token(p).literal))
    ELSE Panic

\* parse_table letting the end of input follow the table name
parse_table_eof_allowed(p0) ==
    Bind(next_token(p0), LAMBDA p :
    IF ~current_token_is(p, "Identifire")
    THEN Err(UnexpectedToken("SObject Name", p.cur.literal))
    ELSE IF ~peek_token_is_query(p) /\ ~peek_token_is(p, "Eof")
    THEN Err(UnexpectedToken("query method after SObject Name",
                             peek_token(p).literal))
    ELSE Ok(p, [node |-> "Table", token |-> p.cur, table_name |-> p.cur.literal]))

parse_table(p0) ==
    Bind(next_token(p0), LAMBDA p :
    IF ~current_token_is(p, "Identifire")
    THEN Err(UnexpectedToken("SObject Name", p.cur.literal))
    ELSE IF ~peek_token_is_query(p)
    THEN IF has_peek(p)
         THEN Err(UnexpectedToken("query method after SObject Name",
                                  peek_token(p).literal))
         ELSE Panic
    ELSE Ok(p, [node |-> "Table", token |-> p.cur, table_name |-> p.cur.literal]))

parse_field(p) ==
    IF peek_token_is(p, "Dot")
    THEN Try(expect_peek(next_token(p), "Identifire"), LAMBDA r :
             Ok(r.p, [node |-> "FieldLiteral", token |-> p.cur,
                      name |-> p.cur.literal \o "." \o r.p.cur.literal]))
    ELSE Ok(p, [node |-> "FieldLiteral", token |-> p.cur, name |-> p.cur.literal])

\* the while loop of parse_fields
RECURSIVE parse_fields_loop(_, _)
parse_fields_loop(p, fields) ==
    IF current_token_is(p, "Rparen") THEN Ok(p, fields)
    ELSE Try(parse_field(p), LAMBDA f :
         IF peek_token_is(f.p, "Rparen") THEN Ok(f.p, Append(fields, f.v))
         ELSE Try(expect_peek(f.p, "Comma"), LAMBDA c :
              Bind(Ok(next_token(c.p), Append(fields, f.v)), LAMBDA n :
                   parse_fields_loop(n.p, n.v))))

parse_fields(p) == Bind(next_token(p), LAMBDA q : parse_fields_loop(q, <<>>))

\* the ASC / DESC part of an order option: the parser state after it and
\* the option's name
orderby_direction(p, name) ==
    IF peek_token_is(p, "Asc") THEN [p |-> next_token(p), name |-> name]
    ELSE IF peek_token_is(p, "Desc")
    THEN [p |-> next_token(p), name |-> name \o " " \o peek_token(p).literal]
    ELSE [p |-> p, name |-> name]

\* the loop condition of parse_orderby_options
orderby_loop_done(p) == peek_token_is(p, "Rparen")

\* the while loop of parse_orderby_options
RECURSIVE parse_orderby_options_loop(_, _)
parse_orderby_options_loop(p, options) ==
    IF orderby_loop_done(p) THEN Ok(p, options)
    ELSE Try(parse_field(p), LAMBDA f :
         Bind(orderby_direction(f.p, f.v.name), LAMBDA d :
         Bind([node |-> "OrderByOptionLiteral", token |-> f.v.token, name |-> d.name],
              LAMBDA option :
              IF peek_token_is(d.p, "Rparen") THEN Ok(d.p, Append(options, option))
              ELSE Try(expect_peek(d.p, "Comma"), LAMBDA c :
                   Bind(Ok(next_token(c.p), Append(options, option)), LAMBDA n :
                        parse_orderby_options_loop(n.p, n.v))))))

parse_orderby_options(p) ==
    Bind(next_token(p), LAMBDA q : parse_orderby_options_loop(q, <<>>))

parse_integer_literal(p) ==
    IF ~has_peek(p) THEN Panic
    ELSE Bind(next_token(p), LAMBDA q :
         Bind(parse_i64(q.cur.literal), LAMBDA value :
            IF ~value.ok THEN Panic
            ELSE Ok(q, [node |-> "IntegerLiteral", token |-> q.cur,
                        value |-> [neg |-> value.neg, mag |-> value.mag]])))

parse_operator_literal(p) ==
    IF has_peek(p)
    THEN IF is_operator(peek_token(p))
         THEN Bind(next_token(p), LAMBDA q :
              Ok(q, [node |-> "OperatorLiteral", token |-> q.cur,
                     value |-> q.cur.literal]))
         ELSE Err(UnexpectedToken("Operator(AND, OR, =, >, >=, <, <=, LIKE)",
                                  peek_token(p).literal))
    ELSE Panic

RECURSIVE parse_value(_)

parse_prefix_expression(p) ==
    Bind(next_token(p), LAMBDA q :
    Try(parse_value(q), LAMBDA right :
        Ok(right.p, [node |-> "PrefixExpression", token |-> q.cur,
                     operator |-> q.cur.literal, right |-> right.v])))

parse_value(p) ==
    IF has_peek(p)
    THEN CASE peek_token(p).kind \in {"Plus", "Minus"} -> parse_prefix_expression(p)
           [] peek_token(p).kind \in {"StringObject", "Integer"} ->
                Bind(next_token(p), LAMBDA q :
                Ok(q, [node |-> "Value", token |-> q.cur, value |-> q.cur.literal]))
           [] OTHER -> Err(UnexpectedToken("", peek_token(p).literal))
    ELSE Panic

parse_condition(p) ==
    Bind(next_token(p), LAMBDA q :
    Try(parse_field(q), LAMBDA field :
    Try(parse_operator_literal(field.p), LAMBDA operator :
    Try(parse_value(operator.p), LAMBDA value :
        Ok(value.p, [node |-> "Condition", token |-> q.cur,
                     field |-> field.v, operator |-> operator.v,
                     value |-> value.v])))))

RECURSIVE parse_where_expressions(_)
RECURSIVE parse_where_loop(_, _)

parse_grouped_condition(p) ==
    Try(parse_where_expressions(next_token(p)), LAMBDA exp :
    Try(expect_peek(exp.p, "Rparen"), LAMBDA c : Ok(c.p, exp.v)))

\* parse_infix_expression taking only the next atom as the right operand
parse_infix_expression_next_atom(p, left) ==
    Bind(next_token(p), LAMBDA q :
    Try(IF peek_token_is(q, "Lparen") THEN parse_grouped_condition(q)
        ELSE parse_condition(q), LAMBDA right :
        Ok(right.p, [node |-> "InfixExpression", token |-> q.cur,
                     left |-> left, operator |-> q.cur.literal,
                     right |-> right.v])))

parse_infix_expression(p, left) ==
    Bind(next_token(p), LAMBDA q :
    Try(parse_where_expressions(q), LAMBDA right :
        Ok(right.p, [node |-> "InfixExpression", token |-> q.cur,
                     left |-> left, operator |-> q.cur.literal,
                     right |-> right.v])))

\* the `while let Some(token) = self.peek_token()` loop of
\* parse_where_expressions
parse_where_loop(p, left_exp) ==
    IF ~has_peek(p) THEN Ok(p, left_exp)
    ELSE CASE peek_token(p).kind \in {"And", "Or"} ->
                Try(parse_infix_expression(p, left_exp), LAMBDA r :
                    parse_where_loop(r.p, r.v))
           [] peek_token(p).kind \in {"Rparen", "Eof"} -> Ok(p, left_exp)
           [] OTHER -> Err(UnexpectedToken("where clause", p.cur.literal))

parse_where_expressions(p) ==
    Try(IF has_peek(p)
        THEN CASE peek_token(p).kind = "Identifire" -> parse_condition(p)
               [] peek_token(p).kind = "Lparen" -> parse_grouped_condition(p)
               [] OTHER -> Err(UnexpectedToken("where clause", p.cur.literal))
        ELSE Err(UnexpectedToken("where clause", p.cur.literal)),
        LAMBDA left_exp : parse_where_loop(left_exp.p, left_exp.v))

parse_select_groupby_statement(p) ==
    Bind(next_token(p), LAMBDA q :
    Try(expect_peek(q, "Lparen"), LAMBDA l :
    Try(parse_fields(l.p), LAMBDA fields :
    Try(expect_peek(fields.p, "Rparen"), LAMBDA r :
        Ok(r.p, [node |-> IF q.cur.kind = "Select" THEN "SelectStatement"
                          ELSE "GroupByStatement",
                 token |-> q.cur, fields |-> fields.v])))))

parse_where_statement(p) ==
    Bind(next_token(p), LAMBDA q :
    Try(expect_peek(q, "Lparen"), LAMBDA l :
    Try(parse_where_expressions(l.p), LAMBDA expression :
    Try(expect_peek(expression.p, "Rparen"), LAMBDA r :
        Ok(r.p, [node |-> "WhereStatement", token |-> q.cur,
                 expression |-> expression.v])))))

parse_orderby_statement(p) ==
    Bind(next_token(p), LAMBDA q :
    Try(expect_peek(q, "Lparen"), LAMBDA l :
    Try(parse_orderby_options(l.p), LAMBDA options :
    Try(expect_peek(options.p, "Rparen"), LAMBDA r :
        Ok(r.p, [node |-> "OrderByStatement", token |-> q.cur,
                 options |-> options.v])))))

parse_limit_statement(p) ==
    Bind(next_token(p), LAMBDA q :
    Try(expect_peek(q, "Lparen"), LAMBDA l :
    Try(parse_integer_literal(l.p), LAMBDA limit :
    Try(expect_peek(limit.p, "Rparen"), LAMBDA r :
        Ok(r.p, [node |-> "LimitStatement", token |-> q.cur, limit |-> limit.v])))))

parse_open_statement(p) ==
    Bind(next_token(p), LAMBDA q :
    Try(expect_peek(q, "Lparen"), LAMBDA l :
    Try(expect_peek(l.p, "Rparen"), LAMBDA r :
        Ok(r.p, [node |-> "OpenStatement", token |-> q.cur]))))

\* called with a method keyword as the peek token
parse_statement(p) ==
    CASE peek_token(p).kind \in {"Select", "Groupby"} -> parse_select_groupby_statement(p)
      [] peek_token(p).kind = "Where" -> parse_where_statement(p)
      [] peek_token(p).kind = "Orderby" -> parse_orderby_statement(p)
      [] peek_token(p).kind = "Limit" -> parse_limit_statement(p)
      [] peek_token(p).kind = "Open" -> parse_open_statement(p)
      [] OTHER -> Err(InvalidMethod(peek_token(p).literal))

\* the loop of Parser::parse putting each new statement right after the Table
RECURSIVE parse_loop_newest_first(_, _)
parse_loop_newest_first(p, statements) ==
    IF ~has_peek(p) THEN Ok(p, statements)
    ELSE IF peek_token(p).kind = "Eof" THEN Ok(p, statements)
    ELSE IF is_query_method(peek_token(p))
    THEN Try(parse_statement(p), LAMBDA s :
         Bind(<<Head(statements), s.v>> \o Tail(statements), LAMBDA stmts :
              parse_loop_newest_first(s.p, stmts)))
    ELSE Err(InvalidMethod(peek_token(p).literal))

\* the loop of Parser::parse returning the statements parsed so far when a
\* statement fails
RECURSIVE parse_loop_keeps_prefix(_, _)
parse_loop_keeps_prefix(p, statements) ==
    IF ~has_peek(p) THEN Ok(p, statements)
    ELSE IF peek_token(p).kind = "Eof" THEN Ok(p, statements)
    ELSE IF is_query_method(peek_token(p))
    THEN Bind(parse_statement(p), LAMBDA s :
         IF s.tag = "Ok"
         THEN Bind(Append(statements, s.v), LAMBDA stmts :
                   parse_loop_keeps_prefix(s.p, stmts))
         ELSE Ok(p, statements))
    ELSE Err(InvalidMethod(peek_token(p).literal))

\* the `while let Some(token) = self.peek_token()` loop of Parser::parse
RECURSIVE parse_loop(_, _)
parse_loop(p, statements) ==
    IF ~has_peek(p) THEN Ok(p, statements)
    ELSE IF peek_token(p).kind = "Eof" THEN Ok(p, statements)
    ELSE IF is_query_method(peek_token(p))
    THEN Try(parse_statement(p), LAMBDA s :
         Bind(Append(statements, s.v), LAMBDA stmts : parse_loop(s.p, stmts)))
    ELSE Err(InvalidMethod(peek_token(p).literal))

\* Parser::parse: Ok(p, statements of the Program), Err or Panic
parse(p) ==
    Try(parse_table(p), LAMBDA table : parse_loop(table.p, <<table.v>>))

(***************************************************************************)
(* engine/querygen.rs                                                      *)
(***************************************************************************)
Query_default ==
    [select |-> None, from |-> "", where_clause |-> None, orderby |-> None,
     limit |-> None, open_browser |-> FALSE]

\* generate without the early return for open_browser
generate_open_appended(q) ==
    LET base == "SELECT " \o (IF q.select.some THEN q.select.v ELSE "Id")
                    \o " FROM " \o q.from
        with_where == IF q.where_clause.some
                      THEN base \o " WHERE " \o q.where_clause.v
                      ELSE base
        with_orderby == IF q.orderby.some
                        THEN with_where \o " ORDER BY " \o q.orderby.v
                        ELSE with_where
        with_limit == IF q.limit.some
                      THEN with_orderby \o " LIMIT " \o q.limit.v
                      ELSE with_orderby
    IN IF q.open_browser THEN with_limit \o " LIMIT 1" ELSE with_limit

\* generate appending LIMIT before ORDER BY
generate_limit_first(q) ==
    LET base == "SELECT " \o (IF q.select.some THEN q.select.v ELSE "Id")
                    \o " FROM " \o q.from
        with_where == IF q.where_clause.some
                      THEN base \o " WHERE " \o q.where_clause.v
                      ELSE base
        with_limit == IF q.limit.some
                      THEN with_where \o " LIMIT " \o q.limit.v
                      ELSE with_where
    IN IF q.open_browser THEN with_where \o " LIMIT 1"
       ELSE IF q.orderby.some THEN with_limit \o " ORDER BY " \o q.orderby.v
       ELSE with_limit

generate(q) ==
    LET base == "SELECT " \o (IF q.select.some THEN q.select.v ELSE "Id")
                    \o " FROM " \o q.from
        with_where == IF q.where_clause.some
                      THEN base \o " WHERE " \o q.where_clause.v
                      ELSE base
        with_orderby == IF q.orderby.some
                        THEN with_where \o " ORDER BY " \o q.orderby.v
                        ELSE with_where
    IN IF q.open_browser THEN with_where \o " LIMIT 1"
       ELSE IF q.limit.some THEN with_orderby \o " LIMIT " \o q.limit.v
       ELSE with_orderby

\* evalute_statement leaving a field alone once it is set
evalute_statement_first_wins(q, node) ==
    CASE node_type(node) = "Table" ->
           [ok |-> TRUE, q |-> [q EXCEPT !.from = Statement_string(node)]]
      [] node_type(node) \in {"SelectStatement", "GroupByStatement"} ->
           [ok |-> TRUE,
            q |-> IF q.select.some THEN q
                  ELSE [q EXCEPT !.select = Some(Statement_string(node))]]
      [] node_type(node) = "WhereStatement" ->
           [ok |-> TRUE,
            q |-> IF q.where_clause.some THEN q
                  ELSE [q EXCEPT !.where_clause = Some(Statement_string(node))]]
      [] node_type(node) = "OrderByStatement" ->
           [ok |-> TRUE,
            q |-> IF q.orderby.some THEN q
                  ELSE [q EXCEPT !.orderby = Some(Statement_string(node))]]
      [] node_type(node) = "LimitStatement" ->
           [ok |-> TRUE,
            q |-> IF q.limit.some THEN q
                  ELSE [q EXCEPT !.limit = Some(Statement_string(node))]]
      [] node_type(node) = "OpenStatement" ->
           [ok |-> TRUE, q |-> [q EXCEPT !.open_browser = TRUE]]
      [] OTHER -> [ok |-> FALSE]

\* evalute_statement whose limit arm also clears open_browser
evalute_statement_limit_clears_open(q, node) ==
    CASE node_type(node) = "Table" ->
           [ok |-> TRUE, q |-> [q EXCEPT !.from = Statement_string(node)]]
      [] node_type(node) \in {"SelectStatement", "GroupByStatement"} ->
           [ok |-> TRUE, q |-> [q EXCEPT !.select = Some(Statement_string(node))]]
      [] node_type(node) = "WhereStatement" ->
           [ok |-> TRUE, q |-> [q EXCEPT !.where_clause = Some(Statement_string(node))]]
      [] node_type(node) = "OrderByStatement" ->
           [ok |-> TRUE, q |-> [q EXCEPT !.orderby = Some(Statement_string(node))]]
      [] node_type(node) = "LimitStatement" ->
           [ok |-> TRUE, q |-> [q EXCEPT !.limit = Some(Statement_string(node)),
                                         !.open_browser = FALSE]]
      [] node_type(node) = "OpenStatement" ->
           [ok |-> TRUE, q |-> [q EXCEPT !.open_browser = TRUE]]
      [] OTHER -> [ok |-> FALSE]

\* [ok |-> TRUE, q |-> the accumulator after the statement] or
\* [ok |-> FALSE] ("invalid node type")
evalute_statement(q, node) ==
    CASE node_type(node) = "Table" ->
           [ok |-> TRUE, q |-> [q EXCEPT !.from = Statement_string(node)]]
      [] node_type(node) = "SelectStatement" ->
           [ok |-> TRUE, q |-> [q EXCEPT !.select = Some(Statement_string(node))]]
      [] node_type(node) = "GroupByStatement" ->
           [ok |-> TRUE, q |-> [q EXCEPT !.select = Some(Statement_string(node))]]
      [] node_type(node) = "WhereStatement" ->
           [ok |-> TRUE, q |-> [q EXCEPT !.where_clause = Some(Statement_string(node))]]
      [] node_type(node) = "OrderByStatement" ->
           [ok |-> TRUE, q |-> [q EXCEPT !.orderby = Some(Statement_string(node))]]
      [] node_type(node) = "LimitStatement" ->
           [ok |-> TRUE, q |-> [q EXCEPT !.limit = Some(Statement_string(node))]]
      [] node_type(node) = "OpenStatement" ->
           [ok |-> TRUE, q |-> [q EXCEPT !.open_browser = TRUE]]
      [] OTHER -> [ok |-> FALSE]

(***************************************************************************)
(* The input lines the model feeds to the loop.                            *)
(***************************************************************************)
MaxStmts == 3

MaxAtoms == 3

MaxFields == 3

MaxOpts == 2

MaxLines == 2

\* all sequences over S of length lo..hi
SeqsOf(S, lo, hi) == UNION {[1..k -> S] : k \in lo..hi}

TableName == "Account"

\* one statement of each kind, in any order and number
StructStmts ==
    {".select(Id, Name)", ".groupby(Id, Name, Account.Name)", ".where(Id = 1)",
     ".orderby(Id, Name DESC)", ".limit(5)", ".open()"}

StructLines ==
    {TableName \o Join(ss, "") : ss \in SeqsOf(StructStmts, 0, MaxStmts)}

\* where-expressions: flat chains of atoms joined by AND / OR; an atom is a
\* condition or a parenthesised group
WhereAtoms == {"Id = 123", "Name LIKE '%test%'", "(Status = 'Closed' OR Id > 5)"}

RECURSIVE Chain(_, _)
Chain(atoms, ops) ==
    IF Len(atoms) = 1 THEN atoms[1]
    ELSE atoms[1] \o " " \o ops[1] \o " " \o Chain(Tail(atoms), Tail(ops))

\* the chain with every operator taking the whole remainder as its right
\* operand, fully parenthesised
RECURSIVE RightNested(_, _)
RightNested(atoms, ops) ==
    IF Len(atoms) = 1 THEN atoms[1]
    ELSE "(" \o atoms[1] \o " " \o ops[1] \o " "
             \o RightNested(Tail(atoms), Tail(ops)) \o ")"

WhereCases ==
    UNION {{[line |-> TableName \o ".where(" \o Chain(as, os) \o ")",
             natoms |-> k,
             nested |-> RightNested(as, os)] :
               as \in [1..k -> WhereAtoms], os \in [1..(k - 1) -> {"AND", "OR"}]}
           : k \in 1..MaxAtoms}

WhereLines == {c.line : c \in WhereCases}

FieldTexts == {"Id", "Name", "Account.Name"}

FieldCases ==
    {[line |-> TableName \o "." \o m \o "(" \o Join(fs, ", ") \o ")",
      method |-> m, nfields |-> Len(fs), list |-> Join(fs, ", ")] :
        m \in {"select", "groupby"}, fs \in SeqsOf(FieldTexts, 1, MaxFields)}

FieldLines == {c.line : c \in FieldCases}

OptionTexts == {"Id", "Name", "Name ASC", "Name DESC", "Account.Name", "Name desc"}

OrderCases ==
    {[line |-> TableName \o ".orderby(" \o Join(os, ", ") \o ")", noptions |-> Len(os)] :
        os \in SeqsOf(OptionTexts, 1, MaxOpts)}

OrderLines == {c.line : c \in OrderCases}

LimitLines ==
    {TableName \o ".limit(" \o a \o ")" : a \in {"10", "hoge", "", "007", "'12'"}}

OtherLines ==
    {"Produc2__c", "select(Id)", "Account.select(limit)", "Account select(Id)",
     "Opportunity.select(Id, Name, Account.Name, Contract.LastName)",
     "Opportunity.groupby(Id, Name, Account.Name)",
     "Account.orderby(Name).limit(5).open()",
     "Account.foo()", "Account.select(", "Account.where(Id = 1", "Account.limit(",
     "Account.select(Id, Name).where(Id)", "Account.where(Id = 1).limit(5).orderby(Id DESC",
     "Account.where(Name = 'MiXed or AND Case' AND Amount >= 0042)",
     "Opportunity.where(Id = 123 AND (Name = 'test' OR Account.Name LIKE '%test%') AND Status = 'Closed')"}

\* conditions whose value is one of the keywords TRUE, FALSE, NULL
ValueKeywordLines ==
    {TableName \o ".where(" \o c \o ")" :
        c \in {"IsPaid = TRUE", "IsPaid = false", "Name != NULL",
               "Id = 1 AND IsPaid = FALSE"}}

\* conditions whose value carries a sign
SignedLines ==
    {TableName \o ".where(" \o c \o ")" :
        c \in {"Discount <= -1000", "Amount > +5", "Amount > +5 AND Id = 1",
               "(Discount <= -1000 OR Id = 1) AND Name = 'x'"}}

\* lines in which one statement kind occurs twice, with different arguments
DuplicateLines ==
    {"Account.where(Id = 1).where(Name = 'x')", "Account.limit(5).limit(7)",
     "Account.select(Id).select(Name)", "Account.groupby(Id).groupby(Name)",
     "Account.orderby(Id DESC).orderby(Name DESC)", "Account.open().open()",
     "Account.where(Id = 1).limit(5).where(Id = 2)",
     "Account.select(Id, Name).limit(7).select(Name).limit(10)"}

\* conditions with AND / OR where the comparison operator stands
LogicalOperatorLines ==
    {TableName \o ".where(" \o c \o ")" :
        c \in {"Id AND 1", "Id OR 'x'", "Id and 1 AND Name = 'x'",
               "Name = 'x' AND Id OR 1"}}

\* argument lists with a token that is no identifier in a field position
NonFieldLines ==
    {"Account.select(1)", "Account.select('x')", "Account.select(,)",
     "Account.select(Id, AND)", "Account.select(Id, 1, Name)",
     "Account.groupby(1, Id)", "Account.groupby(Id, 'x')",
     "Account.orderby(1 DESC)", "Account.orderby(Id, 'x' DESC)",
     "Account.orderby(OR ASC, Id DESC)", "Account.select(Id.1)"}

\* lines with a character the tokenizer has no rule for
IllegalLines ==
    {"#", "Account#", "Account.select(#)", "Account.select(Id, $)",
     "Account.groupby(@)", "Account.orderby(# DESC)", "Account.where(Id = #)",
     "Account.where(Id ! 1)", "Account.where(# = 1)", "Account.limit(#)",
     "Account.select(Id)#", "Account.open(#)"}

\* lines that end inside a statement
CutLines ==
    {"Account.select(", "Account.groupby(", "Account.orderby(", "Account.limit(",
     "Account.where(", "Account.open(", "Account.select", "Account.select(Id",
     "Account.select(Id,", "Account.where(Id = 1", "Account.where(Id =",
     "Account.where(Id", "Account.where(Id = 1 AND", "Account.limit(5",
     "Account.orderby(Id DESC", "Account.orderby(Id", "Account.where((Id = 1",
     "Account.where(Id = -"}

\* lines with a word that is no method where a method is due
NonMethodLines ==
    {"Account.foo()", "Account.foo", "Account.select(Id).foo()",
     "Account.select(Id).bar(1)", "Account.limit(5).where(Id = 1).foo()",
     "Account.select(Id)foo()", "Account.select(Id) foo", "Account.open().Id",
     "Account foo"}

\* conditions whose value has two or more signs in a row
DoubleSignLines ==
    {TableName \o ".where(" \o c \o ")" :
        c \in {"Id = --1", "Id = +-1", "Id = -+1", "Id = ++1", "Id = ---1",
               "Id = - -1", "Name = --'x'", "Id = 1 AND Amount > +-5",
               "(Id = --1)"}}

\* lines with dots in a row, a dot in a string, a method keyword as the
\* second part of a field
DotLines ==
    {"Account..select(Id)", "Account...select(Id)", "Account. .select(Id)",
     "Account.select(Id)..limit(5)", "Account..select(Id, Account.Name)",
     "Account.select(Account..Name)", "Account.select(Account.limit)",
     "Account.select(Id.where)", "Account.where(Name = 'a.b').limit(5)",
     "Account.where(Name = '.').open()", "Account.", "Account..", ".select(Id)",
     "..select(Id)"}

\* limit lines whose argument is a run of digits: with leading zeros, at
\* i64::MAX, and past it
DigitLimitLines ==
    {TableName \o ".limit(" \o a \o ")" :
        a \in {"0", "5", "00", "007", "0010", "9223372036854775807",
               "9223372036854775808", "09223372036854775807",
               "99999999999999999999"}}

\* lines whose keywords are typed in mixed case, or methods in upper case
MixedCaseLines ==
    {"Account.where(Id = 1 And Name = 'x')", "Account.where(Name Like 'x')",
     "Account.where(Id = 1 oR Id = 2)", "Account.where(IsPaid = True)",
     "Account.where(Name != Null)", "Account.where(IsPaid = False)",
     "Account.SELECT(Id)", "Account.Select(Id)", "Account.Where(Id = 1)",
     "Account.select(Id).Limit(5)", "Account.select(Id).Open()",
     "Account.GroupBy(Id)", "Account.select(Id).OrderBy(Name)",
     "Account.orderby(Name Desc)", "Account.orderby(Name Asc, Id)"}

Lines ==
    StructLines \cup WhereLines \cup FieldLines \cup OrderLines
        \cup LimitLines \cup OtherLines \cup ValueKeywordLines \cup SignedLines
        \cup DuplicateLines \cup LogicalOperatorLines \cup NonFieldLines
        \cup IllegalLines \cup CutLines \cup MixedCaseLines
        \cup DigitLimitLines \cup NonMethodLines \cup DoubleSignLines
        \cup DotLines

(***************************************************************************)
(* The state: the interactive loop of main.rs::run around build_query.     *)
(***************************************************************************)
VARIABLES
    pc,        \* where the loop stands
    process,   \* "running", or how the process ended
    nread,     \* lines read so far
    line,      \* the line being compiled
    tokens,    \* tokenize(line)
    program,   \* the statements of the Program from Parser::parse
    query,     \* the Query accumulator
    idx,       \* evaluate's position in program.statements
    result,    \* what build_query returned
    handed,    \* what the execution layer (call_query) was given for this line
    printed    \* the error printed for this line

vars == <<pc, process, nread, line, tokens, program, query, idx, result, handed, printed>>

NoResult == [tag |-> "None"]

Init ==
    /\ pc = "readline"
    /\ process = "running"
    /\ nread = 0
    /\ line = ""
    /\ tokens = <<>>
    /\ program = <<>>
    /\ query = Query_default
    /\ idx = 1
    /\ result = NoResult
    /\ handed = None
    /\ printed = None

\* rl.readline() returns Ok(line): build_query(&line) starts
ReadLine ==
    /\ pc = "readline"
    /\ process = "running"
    /\ nread < MaxLines
    /\ \E l \in Lines : line' = l
    /\ nread' = nread + 1
    /\ pc' = "tokenize"
    /\ UNCHANGED <<process, tokens, program, query, idx, result, handed, printed>>

\* the end of one turn of `loop { ... }`: the turn's values are dropped
LoopBack ==
    /\ pc = "loop"
    /\ pc' = "readline"
    /\ line' = ""
    /\ tokens' = <<>>
    /\ program' = <<>>
    /\ query' = Query_default
    /\ idx' = 1
    /\ result' = NoResult
    /\ handed' = None
    /\ printed' = None
    /\ UNCHANGED <<process, nread>>

\* the line is "exit", or readline fails (CTRL-C, CTRL-D): the loop breaks
\* and run returns
ReadExit ==
    /\ pc = "readline"
    /\ process = "running"
    /\ pc' = "stopped"
    /\ process' = "returned"
    /\ UNCHANGED <<nread, line, tokens, program, query, idx, result, handed, printed>>

\* build_query: let tokens = tokenize(expr)
Tokenize ==
    /\ pc = "tokenize"
    /\ \E r \in {tokenize(line)} :
       IF r.tag = "Ok"
       THEN /\ tokens' = r.tokens
            /\ pc' = "parse"
            /\ UNCHANGED process
       ELSE /\ process' = "exit(1)"
            /\ pc' = "stopped"
            /\ UNCHANGED tokens
    /\ UNCHANGED <<nread, line, program, query, idx, result, handed, printed>>

\* build_query: let program = Parser::new(tokens).parse()?
Parse ==
    /\ pc = "parse"
    /\ \E r \in {parse(Parser_new(tokens))} :
       CASE r.tag = "Ok" ->
              /\ program' = r.v
              /\ pc' = "evaluate"
              /\ UNCHANGED <<process, result>>
         [] r.tag = "Err" ->
              /\ result' = Err(r.e)
              /\ pc' = "returned"
              /\ UNCHANGED <<process, program>>
         [] r.tag = "Panic" ->
              /\ process' = "panic"
              /\ pc' = "stopped"
              /\ UNCHANGED <<program, result>>
    /\ UNCHANGED <<nread, line, tokens, query, idx, handed, printed>>

\* Query::evaluate: one turn of `for node in prgram.statements`
EvaluteStatement ==
    /\ pc = "evaluate"
    /\ idx <= Len(program)
    /\ \E r \in {evalute_statement(query, program[idx])} :
       IF r.ok
       THEN /\ query' = r.q
            /\ idx' = idx + 1
            /\ UNCHANGED <<pc, result>>
       ELSE /\ result' = Err("invalid node type")
            /\ pc' = "returned"
            /\ UNCHANGED <<query, idx>>
    /\ UNCHANGED <<process, nread, line, tokens, program, handed, printed>>

\* build_query: query.generate() and Ok((generated_code, query.open_browser))
Generate ==
    /\ pc = "evaluate"
    /\ idx > Len(program)
    /\ result' = [tag |-> "Ok", query |-> generate(query), open_browser |-> query.open_browser]
    /\ pc' = "returned"
    /\ UNCHANGED <<process, nread, line, tokens, program, query, idx, handed, printed>>

\* run: Ok(v) => conn.call_query(&query, open_browser).await?
\* the execution layer either answers, and the loop goes on, or fails, and
\* run returns its error
CallQuery ==
    /\ pc = "returned"
    /\ result.tag = "Ok"
    /\ handed' = Some([query |-> result.query, open_browser |-> result.open_browser])
    /\ \/ pc' = "loop" /\ UNCHANGED process
       \/ pc' = "stopped" /\ process' = "returned"
    /\ UNCHANGED <<nread, line, tokens, program, query, idx, result, printed>>

\* run: Err(e) => { eprintln!("{}", e); continue; }
PrintError ==
    /\ pc = "returned"
    /\ result.tag = "Err"
    /\ printed' = Some(result.e)
    /\ pc' = "loop"
    /\ UNCHANGED <<process, nread, line, tokens, program, query, idx, result, handed>>

Next ==
    \/ ReadLine
    \/ ReadExit
    \/ Tokenize
    \/ Parse
    \/ EvaluteStatement
    \/ Generate
    \/ CallQuery
    \/ PrintError
    \/ LoopBack

Spec == Init /\ [][Next]_vars

(***************************************************************************)
(* Properties                                                              *)
(***************************************************************************)
\* build_query has returned to the loop
Returned == pc \in {"returned", "loop"}

\* Parser::parse has just returned Ok(Program)
JustParsed == pc = "evaluate" /\ idx = 1

\* the line's processing ended in an error, a panic or the process's exit
Failed ==
    \/ Returned /\ result.tag = "Err"
    \/ pc = "stopped" /\ process \in {"panic", "exit(1)"}

HasStatement(kind) == \E i \in 1..Len(program) : program[i].node = kind

\* program[i] is the last statement of one of the kinds
LastOf(i, kinds) ==
    /\ program[i].node \in kinds
    /\ \A j \in (i + 1)..Len(program) : program[j].node \notin kinds

StartsWith(str, prefix) ==
    Len(str) >= Len(prefix) /\ SubSeq(str, 1, Len(prefix)) = prefix

Contains(str, sub) ==
    \E i \in 1..(Len(str) - Len(sub) + 1) : SubSeq(str, i, i + Len(sub) - 1) = sub

\* the token sequence of a line that is a table identifier and nothing else
TableOnly ==
    Len(tokens) = 2 /\ tokens[1].kind = "Identifire" /\ tokens[2].kind = "Eof"

\* C1 as stated: a line that is only a table identifier parses to a Program
\* of one statement, the Table, and generate() returns SELECT Id FROM <table>.
C1_TableOnlyGenerates ==
    (TableOnly /\ pc \in {"returned", "loop", "stopped"}) =>
        /\ result.tag = "Ok"
        /\ Len(program) = 1
        /\ program[1].node = "Table"
        /\ result.query = "SELECT Id FROM " \o tokens[1].literal

\* C1 amended: a line that is only a table identifier is rejected by
\* parse_table with UnexpectedToken("query method after SObject Name", "");
\* no Program is returned, nothing is evaluated or generated, and the error
\* goes back to the caller.
C1_TableOnlyRejected ==
    TableOnly =>
        /\ pc \in {"parse", "returned", "loop"}
        /\ process = "running"
        /\ program = <<>>
        /\ query = Query_default
        /\ handed = None
        /\ pc # "parse" =>
             result = Err(UnexpectedToken("query method after SObject Name", ""))

C1_Witness == TableOnly /\ line = "Account" /\ pc = "returned"

\* C2: a flat chain of three or more atoms joined by AND / OR parses, and
\* its tree is right-nested: every AND / OR node has the one atom before it
\* as its left operand and the parse of the whole remainder as its right
\* operand, AND and OR alike.
C2_ChainsNestRight ==
    /\ Failed => \A c \in WhereCases : c.natoms >= 3 => line # c.line
    /\ JustParsed =>
         /\ \A c \in WhereCases : (c.natoms >= 3 /\ line = c.line) =>
              /\ Len(program) = 2
              /\ program[2].node = "WhereStatement"
              /\ program[2].expression.node = "InfixExpression"
              /\ program[2].expression.left.node \in {"Condition", "InfixExpression"}
              /\ program[2].expression.right.node = "InfixExpression"
              /\ Expression_string(program[2].expression) = c.nested
         /\ line = "Account.where(Id = 123 AND Name LIKE '%test%' AND Id = 123)" =>
              Expression_string(program[2].expression)
                  = "(Id = 123 AND (Name LIKE '%test%' AND Id = 123))"
         /\ line = "Account.where(Id = 123 AND Name LIKE '%test%' OR Id = 123)" =>
              Expression_string(program[2].expression)
                  = "(Id = 123 AND (Name LIKE '%test%' OR Id = 123))"
         /\ line = "Opportunity.where(Id = 123 AND (Name = 'test' OR Account.Name LIKE '%test%') AND Status = 'Closed')" =>
              Expression_string(program[2].expression)
                  = "(Id = 123 AND ((Name = 'test' OR Account.Name LIKE '%test%') AND Status = 'Closed'))"

C2_Witness ==
    /\ JustParsed
    /\ line = "Account.where(Id = 123 AND (Status = 'Closed' OR Id > 5) OR Name LIKE '%test%')"
    /\ Expression_string(program[2].expression)
           = "(Id = 123 AND ((Status = 'Closed' OR Id > 5) OR Name LIKE '%test%'))"

\* C3 as stated: the where statement renders as its expression tree alone,
\* without the keyword and without an extra pair of parentheses, and that is
\* what evaluate leaves in where_clause.
C3_WhereRendersExpressionOnly ==
    /\ \A i \in 1..Len(program) :
         (Returned /\ result.tag = "Ok" /\ LastOf(i, {"WhereStatement"})) =>
             query.where_clause = Some(Expression_string(program[i].expression))
    /\ (Returned /\ line = "Account.where(Id = 1)") =>
         query.where_clause = Some("Id = 1")
    /\ (Returned /\ line = "Opportunity.where(Id = 123 AND (Name = 'test' OR Account.Name LIKE '%test%') AND Status = 'Closed')") =>
         query.where_clause
             = Some("(Id = 123 AND ((Name = 'test' OR Account.Name LIKE '%test%') AND Status = 'Closed'))")

\* C4 as stated: a groupby statement renders as its comma-joined field
\* names only, and evaluate writes that into the select slot.
C4_GroupByRendersFieldsOnly ==
    /\ \A i \in 1..Len(program) :
         (Returned /\ result.tag = "Ok"
            /\ LastOf(i, {"SelectStatement", "GroupByStatement"})
            /\ program[i].node = "GroupByStatement") =>
             query.select
                 = Some(Join([k \in 1..Len(program[i].fields) |-> program[i].fields[k].name], ", "))
    /\ (Returned /\ line = "Opportunity.groupby(Id, Name, Account.Name)") =>
         query.select = Some("Id, Name, Account.Name")

\* C5 as stated: an orderby statement with n >= 1 options renders n
\* comma-joined entries, one per option, whatever their directions; a last
\* or only option that is a bare field name is not dropped.
C5_OrderByKeepsEveryOption ==
    /\ Failed => line \notin OrderLines
    /\ JustParsed =>
         /\ \A c \in OrderCases : line = c.line =>
              /\ program[2].node = "OrderByStatement"
              /\ Len(program[2].options) = c.noptions
         /\ line = "Account.orderby(Name)" =>
              OrderByStatement_string(program[2]) = "Name"
         /\ line = "Account.orderby(Id, Name)" =>
              OrderByStatement_string(program[2]) = "Id, Name"

\* C6: whenever the Program holds an open statement, generate() returns
\* SELECT {select or Id} FROM {from}[ WHERE {where}] LIMIT 1, with no
\* ORDER BY clause and without the user's limit, wherever open stands among
\* the statements.
C6_OpenLimitsToOne ==
    (Returned /\ result.tag = "Ok" /\ HasStatement("OpenStatement")) =>
        /\ result.open_browser
        /\ result.query =
             "SELECT " \o (IF query.select.some THEN query.select.v ELSE "Id")
               \o " FROM " \o query.from
               \o (IF query.where_clause.some THEN " WHERE " \o query.where_clause.v ELSE "")
               \o " LIMIT 1"
        /\ ~Contains(result.query, "ORDER BY")
        /\ query.limit.some => ~Contains(result.query, "LIMIT " \o query.limit.v)
        /\ line = "Account.orderby(Name).limit(5).open()" =>
             result.query = "SELECT Id FROM Account LIMIT 1"

\* open stands before the orderby and the limit statement
C6_Witness ==
    /\ Returned
    /\ result.tag = "Ok"
    /\ Len(program) = 4
    /\ program[2].node = "OpenStatement"
    /\ query.orderby.some
    /\ query.limit.some
    /\ result.query = "SELECT Id FROM Account LIMIT 1"

\* C7: without open, generate() returns SELECT {select or Id} FROM {from}
\* followed by WHERE, ORDER BY, LIMIT in that order, each only if its field
\* is set, whatever the order of the statements in the line.
C7_ClausesInFixedOrder ==
    (Returned /\ result.tag = "Ok" /\ ~query.open_browser) =>
        /\ ~result.open_browser
        /\ result.query =
             "SELECT " \o (IF query.select.some THEN query.select.v ELSE "Id")
               \o " FROM " \o query.from
               \o (IF query.where_clause.some THEN " WHERE " \o query.where_clause.v ELSE "")
               \o (IF query.orderby.some THEN " ORDER BY " \o query.orderby.v ELSE "")
               \o (IF query.limit.some THEN " LIMIT " \o query.limit.v ELSE "")
        /\ line = "Account.limit(5).orderby(Id, Name DESC)" =>
             result.query = "SELECT Id FROM Account ORDER BY Id, Name DESC LIMIT 5"
        /\ line = "Account.limit(5).orderby(Id, Name DESC).select(Id, Name)" =>
             result.query = "SELECT Id, Name FROM Account ORDER BY Id, Name DESC LIMIT 5"

\* the line has limit, orderby, where in the reverse of the output's order
C7_Witness ==
    /\ Returned
    /\ result.tag = "Ok"
    /\ Len(program) = 4
    /\ program[2].node = "LimitStatement"
    /\ program[3].node = "OrderByStatement"
    /\ program[4].node = "WhereStatement"
    /\ ~query.open_browser

\* C8: a select statement renders as its field names joined by ", " in
\* input order (Parent.Name for a dotted field), and the query starts with
\* SELECT <that list> FROM <table>.
C8_SelectRendersFieldList ==
    /\ Failed => \A c \in FieldCases : c.method = "select" => line # c.line
    /\ \A i \in 1..Len(program) :
         (Returned /\ result.tag = "Ok"
            /\ LastOf(i, {"SelectStatement", "GroupByStatement"})
            /\ program[i].node = "SelectStatement") =>
             StartsWith(result.query,
                 "SELECT "
                   \o Join([k \in 1..Len(program[i].fields) |-> program[i].fields[k].name], ", ")
                   \o " FROM " \o program[1].table_name)
    /\ Returned =>
         /\ \A c \in FieldCases : (c.method = "select" /\ line = c.line) =>
              /\ Len(program[2].fields) = c.nfields
              /\ query.select = Some(c.list)
              /\ result.query = "SELECT " \o c.list \o " FROM " \o TableName
         /\ line = "Account.select(Id, Name)" =>
              result.query = "SELECT Id, Name FROM Account"
         /\ line = "Opportunity.select(Id, Name, Account.Name, Contract.LastName)" =>
              result.query
                  = "SELECT Id, Name, Account.Name, Contract.LastName FROM Opportunity"

C8_Witness ==
    /\ Returned
    /\ line = "Account.select(Id, Account.Name, Name)"
    /\ result.tag = "Ok"
    /\ result.query = "SELECT Id, Account.Name, Name FROM Account"

\* the token inside limit( ) is not an Integer token
LimitArgumentNotInteger ==
    \E i \in 1..(Len(tokens) - 2) :
        /\ tokens[i].kind = "Limit"
        /\ tokens[i + 1].kind = "Lparen"
        /\ tokens[i + 2].kind # "Integer"

\* C9 as stated: when the token inside limit( ) is not an Integer token,
\* Parser::parse returns a ParseError; it neither panics nor returns a
\* Program.
C9_LimitArgumentErrorIsTyped ==
    (LimitArgumentNotInteger /\ pc # "parse") =>
        /\ process # "panic"
        /\ pc # "evaluate"
        /\ program = <<>>
        /\ Returned => result.tag = "Err"

\* C10 as stated: a method keyword that does not follow a dot ends the
\* line's processing with an error returned to the caller of build_query;
\* the process is not terminated.
C10_SequencingErrorIsReturned ==
    /\ process # "exit(1)"
    /\ (line \in {"select(Id)", "Account.select(limit)"} /\ pc \notin {"tokenize", "parse"}) =>
         /\ Returned
         /\ result.tag = "Err"

\* C11 as stated: after a line whose compilation fails, the error is
\* printed, nothing is handed to the execution layer for that line, and the
\* loop reads the next line; no erroneous line ends the session (the
\* session ends only on exit / a readline failure, or when the execution
\* layer fails on a compiled query).
C11_ErroneousLineKeepsSession ==
    /\ process \in {"running", "returned"}
    /\ pc = "stopped" => (line = "" \/ (result.tag = "Ok" /\ handed # None))
    /\ (pc = "loop" /\ result.tag = "Err") =>
         (printed = Some(result.e) /\ handed = None)
    /\ (line \in {"select(Id)", "Account.limit(hoge)", "Account.foo()", "Account.select("}
          /\ pc \notin {"tokenize", "parse"}) =>
         (Returned /\ result.tag = "Err")

\* the whole token vector was consumed by the parse that gave the Program
ParsedToTheEnd ==
    \E r \in {parse(Parser_new(tokens))} :
        /\ r.tag = "Ok"
        /\ r.v = program
        /\ peek_token_is(r.p, "Eof")
        /\ r.p.pos = Len(tokens)

\* C12: build_query yields a (query, flag) pair or an error, never a query
\* from a partial parse: on the first parse error no Program is returned and
\* evaluate / generate are not run; a query comes only from a Program that
\* covers the line up to Eof, with every statement evaluated.
C12_NoQueryFromPartialParse ==
    /\ (Returned /\ result.tag = "Err") =>
         /\ program = <<>>
         /\ query = Query_default
         /\ idx = 1
         /\ handed = None
    /\ (pc = "stopped" /\ process \in {"panic", "exit(1)"}) =>
         /\ program = <<>>
         /\ query = Query_default
         /\ result = NoResult
         /\ handed = None
    /\ (result.tag = "Ok" \/ pc = "evaluate") => ParsedToTheEnd
    /\ result.tag = "Ok" =>
         /\ idx = Len(program) + 1
         /\ result.query = generate(query)
    /\ handed # None =>
         /\ result.tag = "Ok"
         /\ handed.v.query = result.query

\* the error is in the second statement, after a select that parsed
C12_Witness ==
    /\ line = "Account.select(Id, Name).where(Id)"
    /\ pc = "returned"
    /\ result = Err(UnexpectedToken("Operator(AND, OR, =, >, >=, <, <=, LIKE)", ")"))
    /\ program = <<>>

\* C13 as stated: a condition whose value is one of the keywords TRUE,
\* FALSE, NULL parses, and the value is rendered bare, without quotes.
C13_KeywordValuesRenderBare ==
    /\ Failed => line \notin ValueKeywordLines
    /\ JustParsed =>
         /\ line = "Account.where(IsPaid = TRUE)" =>
              Expression_string(program[2].expression) = "IsPaid = TRUE"
         /\ line = "Account.where(Name != NULL)" =>
              Expression_string(program[2].expression) = "Name != NULL"
         /\ line = "Account.where(IsPaid = false)" =>
              Expression_string(program[2].expression) = "IsPaid = false"

\* the rendering of e, put back as the body of a where statement, is
\* tokenized and parsed, and renders as before
WhereRoundTrip(e) ==
    Bind(Expression_string(e), LAMBDA rendered :
    Bind(tokenize(TableName \o ".where(" \o rendered \o ")"), LAMBDA t :
         IF t.tag # "Ok" THEN FALSE
         ELSE Bind(parse(Parser_new(t.tokens)), LAMBDA again :
                   /\ again.tag = "Ok"
                   /\ Len(again.v) = 2
                   /\ again.v[2].node = "WhereStatement"
                   /\ Expression_string(again.v[2].expression) = rendered)))

\* C14 as stated: for every where-expression that parses (signed values and
\* nested groups included), tokenizing and parsing its own rendering as the
\* body of a where statement succeeds and gives the same rendering.
C14_WhereRenderingReparses ==
    \A i \in 1..Len(program) :
        (JustParsed /\ program[i].node = "WhereStatement") =>
            WhereRoundTrip(program[i].expression)

\* C15: a line in which a statement kind occurs more than once is
\* tokenized, parsed and evaluated without error, and after evaluate the
\* field that kind owns holds the rendering of its last occurrence only.
C15_LastOccurrenceWins ==
    /\ Failed => line \notin DuplicateLines
    /\ \A i \in 1..Len(program) : result.tag = "Ok" =>
         /\ LastOf(i, {"WhereStatement"}) =>
              query.where_clause = Some(Statement_string(program[i]))
         /\ LastOf(i, {"OrderByStatement"}) =>
              query.orderby = Some(Statement_string(program[i]))
         /\ LastOf(i, {"LimitStatement"}) =>
              query.limit = Some(Statement_string(program[i]))
         /\ LastOf(i, {"SelectStatement", "GroupByStatement"}) =>
              query.select = Some(Statement_string(program[i]))
         /\ program[i].node = "OpenStatement" => query.open_browser
    /\ Returned =>
         /\ line = "Account.limit(5).limit(7)" =>
              result = [tag |-> "Ok", query |-> "SELECT Id FROM Account LIMIT 7",
                        open_browser |-> FALSE]
         /\ line = "Account.select(Id).select(Name)" =>
              result = [tag |-> "Ok", query |-> "SELECT Name FROM Account",
                        open_browser |-> FALSE]
         /\ line = "Account.select(Id, Name).limit(7).select(Name).limit(10)" =>
              result = [tag |-> "Ok", query |-> "SELECT Name FROM Account LIMIT 10",
                        open_browser |-> FALSE]

\* two different where statements, a limit between them: the second is kept
C15_Witness ==
    /\ Returned
    /\ result.tag = "Ok"
    /\ line = "Account.where(Id = 1).limit(5).where(Id = 2)"
    /\ Len(program) = 4
    /\ program[2].node = "WhereStatement"
    /\ program[4].node = "WhereStatement"
    /\ Statement_string(program[2]) # Statement_string(program[4])
    /\ query.where_clause = Some(Statement_string(program[4]))

\* the method keyword tokens of the line, in input order
MethodTokens == SelectSeq(tokens, LAMBDA t : is_query_method(t))

\* the statement node a method keyword starts
StatementOf(kind) ==
    CASE kind = "Select" -> "SelectStatement"
      [] kind = "Groupby" -> "GroupByStatement"
      [] kind = "Where" -> "WhereStatement"
      [] kind = "Orderby" -> "OrderByStatement"
      [] kind = "Limit" -> "LimitStatement"
      [] kind = "Open" -> "OpenStatement"

\* C16: every Program returned by Parser::parse has a Table node as its
\* first statement and nowhere else; every later statement is a method
\* statement (select, groupby, where, orderby, limit, open), and the
\* statements stand in the order of the input line.
C16_ProgramShape ==
    program # <<>> =>
        /\ program[1].node = "Table"
        /\ program[1].token = tokens[1]
        /\ Len(program) = Len(MethodTokens) + 1
        /\ \A i \in 2..Len(program) :
             /\ program[i].node \in {"SelectStatement", "GroupByStatement",
                                     "WhereStatement", "OrderByStatement",
                                     "LimitStatement", "OpenStatement"}
             /\ program[i].token = MethodTokens[i - 1]
             /\ program[i].node = StatementOf(MethodTokens[i - 1].kind)

C16_Witness ==
    /\ JustParsed
    /\ line = "Account.open().where(Id = 1).select(Id, Name)"
    /\ [i \in 1..Len(program) |-> program[i].node]
           = <<"Table", "OpenStatement", "WhereStatement", "SelectStatement">>

\* the Value nodes of an expression
RECURSIVE ValuesOf(_)
ValuesOf(e) ==
    CASE e.node = "Value" -> {e}
      [] e.node = "PrefixExpression" -> ValuesOf(e.right)
      [] e.node = "InfixExpression" -> ValuesOf(e.left) \cup ValuesOf(e.right)
      [] e.node = "Condition" -> ValuesOf(e.value)

\* texts a Value may hold
ValueTexts == {"abc", "12", "TRUE", "MiXed or AND Case", "%test%", ""}

\* the rendering the claim gives a Value made from the token
QuotedByKind(token) ==
    IF token.kind \in {"Identifire", "StringObject"}
    THEN "'" \o token.literal \o "'"
    ELSE token.literal

\* C17: a Value is rendered inside single quotes exactly when its token is
\* an identifier or a quoted-string literal, and as its bare text for every
\* other token kind; the text inside the quotes is the token's literal
\* unchanged.
C17_ValueQuotedByTokenKind ==
    /\ \A kind \in TokenKinds, text \in ValueTexts :
         Value_string([node |-> "Value", token |-> Token(kind, text), value |-> text])
             = QuotedByKind(Token(kind, text))
    /\ \A i \in 1..Len(program) :
         (JustParsed /\ program[i].node = "WhereStatement") =>
             \A v \in ValuesOf(program[i].expression) :
                 /\ v.value = v.token.literal
                 /\ Value_string(v) = QuotedByKind(v.token)
    /\ JustParsed =>
         /\ line = "Account.where(Name = 'MiXed or AND Case' AND Amount >= 0042)" =>
              Expression_string(program[2].expression)
                  = "(Name = 'MiXed or AND Case' AND Amount >= 0042)"
         /\ line = "Account.where(Name LIKE '%test%')" =>
              Expression_string(program[2].expression) = "Name LIKE '%test%'"
         /\ line = "Account.where(Id = 123)" =>
              Expression_string(program[2].expression) = "Id = 123"

\* a parsed where statement with a quoted and a bare value
C17_Witness ==
    /\ JustParsed
    /\ Len(program) = 2
    /\ program[2].node = "WhereStatement"
    /\ \E v, w \in ValuesOf(program[2].expression) :
         /\ v.token.kind = "StringObject"
         /\ Value_string(v) = "'MiXed or AND Case'"
         /\ w.token.kind = "Integer"
         /\ Value_string(w) = "0042"

\* C18 as stated: a value prefixed by + or - renders as the sign followed at
\* once by the value's literal text and nothing else; no arithmetic is done.
C18_SignedValueRendersSignAndText ==
    /\ Failed => line \notin SignedLines
    /\ \A i \in 1..Len(program) :
         (JustParsed /\ program[i].node = "WhereStatement"
            /\ program[i].expression.node = "Condition"
            /\ program[i].expression.value.node = "PrefixExpression") =>
             Expression_string(program[i].expression.value)
                 = program[i].expression.value.operator
                     \o Expression_string(program[i].expression.value.right)
    /\ JustParsed =>
         /\ line = "Account.where(Discount <= -1000)" =>
              Expression_string(program[2].expression) = "Discount <= -1000"
         /\ line = "Account.where(Amount > +5)" =>
              Expression_string(program[2].expression) = "Amount > +5"

\* C19 as stated: the token between the field and the value of a condition
\* must be one of = != > >= < <= LIKE; a condition with AND or OR in the
\* operator position is rejected with an UnexpectedToken error.
C19_LogicalKeywordIsNoOperator ==
    (line \in LogicalOperatorLines /\ pc \notin {"tokenize", "parse"}) =>
        /\ Returned
        /\ result.tag = "Err"
        /\ result.e.type = "UnexpectedToken"

\* C20 as stated: in select, groupby and orderby argument lists every field
\* position must hold an Identifier token (optionally followed by one
\* .Identifier); a list with any other token kind as a field is rejected
\* with an UnexpectedToken error instead of being rendered into the query.
C20_FieldMustBeIdentifier ==
    (line \in NonFieldLines /\ pc \notin {"tokenize", "parse"}) =>
        /\ Returned
        /\ result.tag = "Err"
        /\ result.e.type = "UnexpectedToken"

\* C21 as stated: the tokenizer never rejects an illegal character (it
\* emits an Illegal token carrying it), and every line whose token sequence
\* holds an Illegal token, at any position, ends in a parse error and never
\* in a generated query.
C21_IllegalTokenIsRejectedByParser ==
    /\ (line \in IllegalLines /\ pc # "tokenize") =>
         /\ process # "exit(1)"
         /\ \E i \in 1..Len(tokens) : tokens[i].kind = "Illegal"
    /\ ((\E i \in 1..Len(tokens) : tokens[i].kind = "Illegal")
          /\ pc \notin {"tokenize", "parse"}) =>
         /\ Returned
         /\ result.tag = "Err"
         /\ handed = None

\* C22 as stated: when the input is exhausted in the middle of a production
\* (Eof is reached where a statement body or a closing parenthesis is still
\* required), Parser::parse returns ParseError::Eof.
C22_CutLineGivesEofError ==
    (line \in CutLines /\ pc \notin {"tokenize", "parse"}) =>
        /\ Returned
        /\ result = Err(ParseError_Eof)

\* the lower-case form of a text
to_lowercase(str) ==
    LET lower == Chars("abcdefghijklmnopqrstuvwxyz")
        upper == Chars("ABCDEFGHIJKLMNOPQRSTUVWXYZ")
        fold(c) == IF c \in UpperLetters
                   THEN lower[CHOOSE i \in 1..26 : upper[i] = c]
                   ELSE c
    IN Join([i \in 1..Len(str) |-> fold(SubSeq(str, i, i))], "")

\* the keyword table: the token kind of each keyword
KeywordKind ==
    [select |-> "Select", where |-> "Where", orderby |-> "Orderby",
     groupby |-> "Groupby", limit |-> "Limit", open |-> "Open",
     and |-> "And", or |-> "Or", like |-> "Like", asc |-> "Asc",
     desc |-> "Desc", true |-> "True", false |-> "False", null |-> "Null"]

\* C23 as stated: keyword classification is case-insensitive for the whole
\* keyword table: a word that is a keyword in some mix of upper and lower
\* case (And, Like, SELECT) is tokenized as that keyword, never as an
\* identifier.
C23_KeywordsInAnyCase ==
    \A i \in 1..Len(tokens) :
        (tokens[i].kind \notin {"StringObject", "Integer", "Illegal"}
           /\ to_lowercase(tokens[i].literal) \in DOMAIN KeywordKind) =>
            tokens[i].kind = KeywordKind[to_lowercase(tokens[i].literal)]

\* C24 as stated: the limit clause renders the bare text of the Integer
\* token for every digit run: the digits come out unchanged (no
\* normalisation of 007), and a digit run too large for i64 is handled
\* without failure.
C24_LimitRendersDigitsUnchanged ==
    (line \in DigitLimitLines /\ pc \notin {"tokenize", "parse"}) =>
        /\ tokens[4].kind = "Integer"
        /\ ~Failed
        /\ Len(program) = 2
        /\ program[2].node = "LimitStatement"
        /\ LimitStatement_string(program[2]) = tokens[4].literal
        /\ (Returned /\ result.tag = "Ok") =>
             result.query = "SELECT Id FROM Account LIMIT " \o tokens[4].literal

\* the text an order option is to render as: the field followed by " DESC"
\* when a direction desc or DESC follows it, the field alone otherwise
OptionRendering(text) ==
    LET n == Len(text)
        ends(suffix) == n > Len(suffix) /\ SubSeq(text, n - Len(suffix) + 1, n) = suffix
    IN IF ends(" DESC") \/ ends(" desc") THEN SubSeq(text, 1, n - 5) \o " DESC"
       ELSE IF ends(" ASC") \/ ends(" asc") THEN SubSeq(text, 1, n - 4)
       ELSE text

\* the orderby lines with the rendering of their options
DirectionCases ==
    {[line |-> TableName \o ".orderby(" \o Join(os, ", ") \o ")",
      rendering |-> Join([k \in 1..Len(os) |-> OptionRendering(os[k])], ", ")] :
        os \in SeqsOf(OptionTexts, 1, MaxOpts)}

\* C25 as stated: an order option followed by the DESC keyword renders as
\* the field name followed by " DESC", whatever the case the keyword was
\* typed in (desc or DESC); an option followed by ASC, or by no direction,
\* renders as the field name with no suffix.
C25_DirectionRendering ==
    /\ Failed => line \notin OrderLines
    /\ JustParsed =>
         \A c \in DirectionCases : line = c.line =>
             /\ program[2].node = "OrderByStatement"
             /\ OrderByStatement_string(program[2]) = c.rendering

\* the accumulator field a statement variant owns
OwnedField(node) ==
    CASE node = "Table" -> "from"
      [] node \in {"SelectStatement", "GroupByStatement"} -> "select"
      [] node = "WhereStatement" -> "where_clause"
      [] node = "OrderByStatement" -> "orderby"
      [] node = "LimitStatement" -> "limit"
      [] node = "OpenStatement" -> "open_browser"

\* the value the owned field takes from the statement
OwnedValue(s) ==
    CASE s.node = "Table" -> Statement_string(s)
      [] s.node = "OpenStatement" -> TRUE
      [] OTHER -> Some(Statement_string(s))

\* C26: evaluating one statement writes exactly the one accumulator field
\* its variant owns (Table: from; Select and GroupBy: select; Where:
\* where_clause; OrderBy: orderby; Limit: limit; Open: open_browser = true)
\* and leaves the other five fields unchanged; open_browser, once true, is
\* never reset by a later statement.
C26_StatementWritesItsOwnField ==
    [][(pc = "evaluate" /\ idx <= Len(program) /\ idx' = idx + 1) =>
         /\ query'[OwnedField(program[idx].node)] = OwnedValue(program[idx])
         /\ \A f \in DOMAIN query \ {OwnedField(program[idx].node)} :
                query'[f] = query[f]
         /\ query.open_browser => query'.open_browser]_vars

\* open has been evaluated, then a limit and a select statement after it,
\* and the flag is still set beside the two fields
C26_Witness ==
    /\ pc = "evaluate"
    /\ idx = 5
    /\ program[2].node = "OpenStatement"
    /\ program[3].node = "LimitStatement"
    /\ program[4].node = "SelectStatement"
    /\ query.open_browser
    /\ query.limit = Some("5")
    /\ query.select = Some("Id, Name")
    /\ query.from = "Account"
    /\ query.where_clause = None
    /\ query.orderby = None

\* the first identifier in method position: an Identifire token that comes
\* right after the table name and its dot, or after the closing parenthesis
\* of a statement and a dot
NonMethodWord ==
    LET at == {i \in 3..Len(tokens) :
                  /\ tokens[i].kind = "Identifire"
                  /\ tokens[i - 1].kind = "Dot"
                  /\ \/ i = 3 /\ tokens[1].kind = "Identifire"
                     \/ tokens[i - 2].kind = "Rparen"}
    IN IF at = {} THEN None
       ELSE Some(tokens[CHOOSE i \in at : \A j \in at : i <= j].literal)

\* C27 as stated: an identifier that is no method, in method position, is
\* reported as InvalidMethod carrying the identifier's text, both right
\* after the table (Account.foo() gives InvalidMethod("foo")) and after
\* method statements.
C27_InvalidMethodCarriesTheWord ==
    (line \in NonMethodLines /\ NonMethodWord.some /\ pc \notin {"tokenize", "parse"}) =>
        /\ Returned
        /\ result = Err(InvalidMethod(NonMethodWord.v))

\* C28 as stated: a value with two or more consecutive signs
\* (where(Id = --1), where(Id = +-1)) is rejected with an UnexpectedToken
\* error; no prefix node is nested in another.
C28_ConsecutiveSignsRejected ==
    (line \in DoubleSignLines /\ pc \notin {"tokenize", "parse"}) =>
        /\ Returned
        /\ result.tag = "Err"
        /\ result.e.type = "UnexpectedToken"
        /\ program = <<>>

\* C29 as stated: for every token sequence tokenize can return,
\* Parser::parse returns Ok(Program) or Err(ParseError) and never panics,
\* the sequences of lines cut off after select(, groupby(, orderby( and
\* limit( included.
C29_ParseReturnsOkOrErr ==
    (tokens # <<>> /\ pc \notin {"readline", "tokenize", "parse"}) =>
        /\ process # "panic"
        /\ \/ program # <<>>
           \/ Returned /\ result.tag = "Err" /\ result.e.type \in {"UnexpectedToken", "InvalidMethod", "Eof"}

\* the places of the dots in a text, and their number
DotPlaces(str) == {i \in 1..Len(str) : SubSeq(str, i, i) = "."}

DotsIn(str) == Cardinality(DotPlaces(str))

\* the number of dots of the line that stand inside a quoted string
DotsInStrings ==
    Cardinality(UNION {{<<t, i>> : i \in DotPlaces(tokens[t].literal)} :
                          t \in {u \in 1..Len(tokens) : tokens[u].kind = "StringObject"}})

\* the line has two dots with nothing but white space between them
DotsInARow ==
    \E i, j \in DotPlaces(line) :
        /\ i < j
        /\ \A k \in (i + 1)..(j - 1) : is_whitespace(SubSeq(line, k, k))

\* tokenize has returned the token sequence of the line
Tokenized == tokens # <<>>

\* the sequence ends with the one Eof token it holds
EndsWithTheOnlyEof ==
    /\ tokens[Len(tokens)] = Token("Eof", "")
    /\ \A i \in 1..(Len(tokens) - 1) : tokens[i].kind # "Eof"

\* C30 as stated: in every token sequence returned by tokenize, a method
\* keyword token is never immediately preceded by a Dot token (the dot that
\* introduces a method is removed, a dot inside a field is kept), and the
\* sequence ends with exactly one Eof token, which occurs nowhere else.
C30_MethodNeverFollowsDot ==
    Tokenized =>
        /\ \A i \in 2..Len(tokens) :
               is_query_method(tokens[i]) => ~is_dot(tokens[i - 1])
        /\ EndsWithTheOnlyEof

\* C30, amended: in every token sequence returned by tokenize, exactly one
\* dot has been removed for each method keyword token and every other dot
\* of the line outside a quoted string is kept as a Dot token; when the
\* line has no two dots in a row, no method keyword token is immediately
\* preceded by a Dot token (of dots in a row only the last one is removed,
\* and the keyword then follows a Dot token); the sequence ends with exactly
\* one Eof token, which occurs nowhere else.
C30_OneDotRemovedPerMethod ==
    Tokenized =>
        /\ Len(SelectSeq(tokens, is_dot)) + Len(MethodTokens)
             = DotsIn(line) - DotsInStrings
        /\ ~DotsInARow =>
             \A i \in 2..Len(tokens) :
                 is_query_method(tokens[i]) => ~is_dot(tokens[i - 1])
        /\ EndsWithTheOnlyEof

\* the dot before select is removed and the dot inside the field
\* Account.Name is kept
C30_Witness ==
    /\ Tokenized
    /\ ~DotsInARow
    /\ line = "Opportunity.groupby(Id, Name, Account.Name)"
    /\ tokens[1] = Token("Identifire", "Opportunity")
    /\ tokens[2] = Token("Groupby", "groupby")
    /\ tokens[8] = Token("Identifire", "Account")
    /\ tokens[9] = Token("Dot", ".")
    /\ tokens[10] = Token("Identifire", "Name")
    /\ DotsIn(line) = 2
    /\ Len(tokens) = 12

=============================================================================
